---- MODULE Spec2Model ----
(***************************************************************************)
(* A model of PDFMergerCore (pdf_merger_core.py): one merge_pdfs call,     *)
(* stepped document by document and page by page, over a filesystem that   *)
(* other processes may change while the call runs (Spec); the call         *)
(* repeated (SpecTwice); two concurrent calls (SpecTwo); get_pdf_info and  *)
(* get_file_list_info (SpecInfo); and the job handling of the web front    *)
(* end (SpecWeb) and the file list of the GUI (SpecGui).                   *)
(***************************************************************************)
EXTENDS Integers, Sequences, FiniteSets, TLC

\* ---------------------------------------------------------------- bounds
MaxFiles == 3    \* longest input list passed to merge_pdfs
MaxPages == 2    \* most pages in one input document
MaxEnv   == 1    \* filesystem changes by other processes during one call
MaxCallFiles == 2    \* longest input list of each of two concurrent calls
MaxUpload    == 3    \* most files in one upload, and longest /reorder list
MaxMergeReqs == 2    \* /merge requests handled for one job
MaxGuiMerges == 2    \* merge threads of the GUI under way at once

\* ----------------------------------------------------------------- paths
\* A path is its sequence of components, so that dirname is computed.
Paths    == {<<"a.pdf">>, <<"b.pdf">>}
OutPaths == {<<"merged.pdf">>, <<"out", "merged.pdf">>}
\* A second output path in the directory of the last one.
SiblingPath == <<"out", "other.pdf">>
AllPaths == Paths \cup OutPaths \cup {SiblingPath}

\* os.path.dirname: everything but the last component ('' is <<>>).
dirname(path) == SubSeq(path, 1, Len(path) - 1)

\* ----------------------------------------------------------------- files
\* What a path holds.  st: "missing" (no such file), "denied" (exists, open
\* raises PermissionError), "garbage" (opens, PdfReader raises), "pdf"
\* (parses).  pages: the page stream.  bad: the first page whose access
\* raises (0: none).
Missing == [st |-> "missing", pages |-> <<>>, bad |-> 0]
Denied  == [st |-> "denied",  pages |-> <<>>, bad |-> 0]
Garbage == [st |-> "garbage", pages |-> <<>>, bad |-> 0]
Pdf(path, n, b) == [st |-> "pdf", pages |-> [k \in 1..n |-> <<path, k>>], bad |-> b]

\* The shapes a file can have: <<st, number of pages, bad>>.
Shapes ==
    {<<"missing", 0, 0>>, <<"denied", 0, 0>>, <<"garbage", 0, 0>>} \cup
    UNION { { <<"pdf", n, b>> : b \in 0..n } : n \in 0..MaxPages }

File(path, shape) ==
    IF shape[1] = "pdf" THEN Pdf(path, shape[2], shape[3])
    ELSE [st |-> shape[1], pages |-> <<>>, bad |-> 0]

\* What another process can turn an input file into while the call runs.
EnvStates == {Missing, Garbage}

VARIABLES
    fs,                \* the filesystem: path -> file
    dirs,              \* the directories that exist
    pc,                \* position in merge_pdfs
    input_files, output_path, progress_callback,   \* the arguments
    pos,               \* entries of input_files the first loop has consumed
    valid_files, total_files, i,                    \* locals
    writer,            \* PdfWriter: the pages added so far
    reader, j,         \* the open PdfReader and the pages it has yielded
    result,            \* the returned bool (meaningful once pc = "done")
    ret,               \* the source line of the return statement taken (0: none)
    calls,             \* the progress_callback invocations, in order
    validated,         \* history: each retained file as the first loop saw it
    opened,            \* history: each retained file as the second loop opened it
    skipped,           \* history: the indices i whose extraction raised
    fs0, dirs0,        \* history: fs and dirs when the call began
    envLeft            \* filesystem changes by other processes still allowed

\* get_file_list_info and get_pdf_info
VARIABLES
    meta,              \* path -> the document information of the file
    file_paths,        \* the argument of get_file_list_info
    ipc,               \* position in get_file_list_info
    ipos,              \* entries of file_paths the loop has consumed
    total_pages, total_size, valid_count,   \* locals (valid_count: valid_files)
    summary,           \* the returned dict
    entries            \* history: per entry, what validation and get_pdf_info gave

\* A caller that repeats a merge_pdfs call
VARIABLES
    round,             \* 1 during the first call, 2 during the repeated one
    first_out          \* history: the output file the first call left

\* Two threads inside merge_pdfs of the same PDFMergerCore instance
VARIABLES
    proc               \* thread -> its arguments, locals, position and result

\* The web front end (pdf_merger_web.py)
VARIABLES
    merge_jobs,        \* job id -> the job dict created under that id
    mreq,              \* /merge request -> position in start_merge
    thr,               \* /merge request -> the merge thread it started
    upload_folder,     \* the paths that exist in UPLOAD_FOLDER
    saved_files,       \* history: job id -> the paths its upload kept on disk
    removed_by         \* job id -> the handler that deleted its merge_jobs entry

\* The GUI front end (pdf_merger_gui.py)
VARIABLES
    self_file_paths,   \* self.file_paths
    file_tree,         \* the rows of self.file_tree, top to bottom
    selection,         \* the ids of the selected rows
    output_var,        \* self.output_var: the output path typed or browsed
    merge_button,      \* the state of self.merge_button
    gui_last,          \* history: the handler that ran last
    gui_thr            \* the merge threads: inside merge_pdfs, and ended
                       \* with their merge_complete call still queued

mergeVars == << fs, dirs, pc, input_files, output_path, progress_callback, pos,
                valid_files, total_files, i, writer, reader, j, result, ret,
                calls, validated, opened, skipped, fs0, dirs0, envLeft >>
infoVars == << meta, file_paths, ipc, ipos, total_pages, total_size,
               valid_count, summary, entries >>

\* The arguments, locals and histories of the one call (all but the
\* filesystem).
mergeLocals == << pc, input_files, output_path, progress_callback, pos,
                  valid_files, total_files, i, writer, reader, j, result, ret,
                  calls, validated, opened, skipped, fs0, dirs0, envLeft >>

twiceVars == << round, first_out >>
twoVars == << proc >>
webVars == << merge_jobs, mreq, thr, upload_folder, saved_files, removed_by >>

guiVars == << self_file_paths, file_tree, selection, output_var,
              merge_button, gui_last, gui_thr >>

\* The state of the front ends.
frontVars == << webVars, guiVars >>

\* The state of the callers of the core.
callerVars == << twiceVars, twoVars, frontVars >>

\* The state of the core and of its direct callers.
coreVars == << mergeVars, infoVars, twiceVars, twoVars >>

vars == << mergeVars, infoVars, callerVars >>

\* What a merge_pdfs call leaves alone.
others == << infoVars, callerVars >>

\* ----------------------------------------------------- library behaviour
\* os.path.exists
exists(path) == fs[path].st # "missing"
\* open(path, 'rb') succeeds
CanOpen(f) == f.st \notin {"missing", "denied"}
\* PdfReader(file) succeeds
Parses(f) == f.st = "pdf"
\* reader.pages[k] (1-based here) is accessible
PageOk(f, k) == f.bad # k

\* Lines 18-22: the exception the try body of validate_pdf_file raises on a
\* file ("none": it reaches `return True`): open, then PdfReader, then, if
\* there is a page, the access to the first one.
ValidateException(f) ==
    IF ~CanOpen(f)
    THEN (IF f.st = "missing" THEN "FileNotFoundError" ELSE "PermissionError")
    ELSE IF ~Parses(f) THEN "PdfReadError"
    ELSE IF Len(f.pages) > 0 /\ ~PageOk(f, 1) THEN "OtherError"
    ELSE "none"

\* The exception classes of the model; each derives from Exception.
ExceptionClasses ==
    {"PdfReadError", "FileNotFoundError", "PermissionError", "OtherError"}

\* An except clause that names the three classes only.
ValidateCatchesNamed(exc) ==
    exc \in {"PdfReadError", "FileNotFoundError", "PermissionError"}

\* Line 24: except (PdfReadError, FileNotFoundError, PermissionError, Exception).
ValidateCatches(exc) ==
    \/ exc \in {"PdfReadError", "FileNotFoundError", "PermissionError"}
    \/ exc \in ExceptionClasses

\* validate_pdf_file returns True (line 23); a caught exception returns False
\* (line 26).
validate_pdf_file(file_path) == ValidateException(fs[file_path]) = "none"

\* validate_pdf_file lets an exception out.
validate_raises(file_path) ==
    LET exc == ValidateException(fs[file_path]) IN
    exc # "none" /\ ~ValidateCatches(exc)

\* --------------------------------------------------------------- initial
\* The input lists of a call.  The two input paths are interchangeable (each
\* holds any file), so a list that is not empty begins with a.pdf.
InputLists ==
    { files \in UNION { [1..n -> Paths] : n \in 0..MaxFiles } :
        files # << >> => files[1] = << "a.pdf" >> }

\* The input files hold anything; either the output paths hold an older
\* one-page document each, or nothing is there and their directory is missing.
Init ==
    /\ \E shape \in [Paths -> Shapes], old \in BOOLEAN :
         /\ fs = [p \in AllPaths |->
                    IF p \in Paths THEN File(p, shape[p])
                    ELSE IF old THEN Pdf(p, 1, 0) ELSE Missing]
         /\ dirs = IF old
                   THEN { dirname(p) : p \in { q \in OutPaths : Len(q) > 1 } }
                   ELSE {}
    /\ pc = "idle"
    /\ input_files = <<>> /\ output_path = <<>> /\ progress_callback = FALSE
    /\ pos = 0 /\ valid_files = <<>> /\ total_files = 0 /\ i = 0
    /\ writer = <<>> /\ reader = Missing /\ j = 0
    /\ result = FALSE /\ ret = 0 /\ calls = <<>>
    /\ validated = <<>> /\ opened = <<>> /\ skipped = {}
    /\ fs0 = fs /\ dirs0 = dirs
    /\ envLeft = MaxEnv

\* The state of get_file_list_info before it is called.
InfoIdle ==
    /\ meta = [p \in Paths |-> "plain"]
    /\ file_paths = <<>> /\ ipc = "idle" /\ ipos = 0
    /\ total_pages = 0 /\ total_size = 0 /\ valid_count = 0
    /\ summary = [total_files |-> 0, valid_files |-> 0,
                  total_pages |-> 0, total_size |-> 0]
    /\ entries = <<>>

\* The first call has not been repeated.
TwiceIdle == round = 1 /\ first_out = Missing

\* The threads of the two concurrent calls.
Procs == {1, 2}

\* A thread entering merge_pdfs.
IdleProc ==
    [pc |-> "idle", input_files |-> <<>>, output_path |-> <<>>, pos |-> 0,
     valid_files |-> <<>>, total_files |-> 0, i |-> 0, writer |-> <<>>,
     reader |-> Missing, j |-> 0, result |-> FALSE, ret |-> 0]

\* No thread has called yet: proc maps the threads that have.
TwoIdle == proc = << >>

\* The /merge requests of the model.
Reqs == 1..MaxMergeReqs

\* The server has just started: no job, no request received, no thread.
WebIdle ==
    /\ merge_jobs = << >>
    /\ mreq = << >>
    /\ thr = << >>
    /\ upload_folder = {}
    /\ saved_files = << >>
    /\ removed_by = << >>

\* The window has just opened: lines 35, 96, 126, 146-147.
GuiIdle ==
    /\ self_file_paths = << >> /\ file_tree = << >> /\ selection = {}
    /\ output_var = "" /\ merge_button = "disabled"
    /\ gui_last = "none"
    /\ gui_thr = [running |-> 0, queued |-> 0]

\* No caller of the core has acted.
CallersIdle == TwiceIdle /\ TwoIdle /\ WebIdle /\ GuiIdle

\* ------------------------------------------------------------ merge_pdfs
\* The values of the three `return False` statements.
NoInputResult    == FALSE    \* line 60: the input list is empty
NoValidResult    == FALSE    \* line 75: no input passed the filter
MergeErrorResult == FALSE    \* line 111: the outer except

\* `return value` at source line `line`.
Return(value, line) ==
    /\ pc' = "done"
    /\ result' = value
    /\ ret' = line

\* An exception no handler of merge_pdfs catches reaches the caller.
Propagate ==
    /\ pc' = "raised"
    /\ UNCHANGED << result, ret >>

\* An outer try without its except clause.
OuterExceptMissing == Propagate

\* Lines 109-111: the outer except logs the exception and returns False.
OuterExcept == Return(MergeErrorResult, 111)

\* The call, and lines 58-60: an empty list returns False at once.
Call ==
    /\ pc = "idle"
    /\ \E files \in InputLists, out \in OutPaths, cb \in BOOLEAN :
         /\ input_files' = files
         /\ output_path' = out
         /\ progress_callback' = cb
         /\ IF files = <<>>
            THEN Return(NoInputResult, 60)
            ELSE /\ pc' = "filter"
                 /\ UNCHANGED << result, ret >>
    /\ fs0' = fs /\ dirs0' = dirs
    /\ UNCHANGED << fs, dirs, pos, valid_files, total_files, i, writer, reader,
                    j, calls, validated, opened, skipped, envLeft >>
    /\ UNCHANGED others

\* A validation loop that reports its own progress through the callback.
FilterStepReporting ==
    /\ pc = "filter"
    /\ pos < Len(input_files)
    /\ LET file_path == input_files[pos + 1] IN
         IF exists(file_path) /\ validate_raises(file_path)
         THEN /\ Propagate
              /\ UNCHANGED << valid_files, validated, pos >>
         ELSE /\ IF exists(file_path) /\ validate_pdf_file(file_path)
                 THEN /\ valid_files' = Append(valid_files, file_path)
                      /\ validated' = Append(validated, fs[file_path])
                 ELSE UNCHANGED << valid_files, validated >>
              /\ pos' = pos + 1
              /\ UNCHANGED << pc, result, ret >>
    /\ calls' = IF progress_callback
                THEN Append(calls, << pos + 1, Len(input_files) >>)
                ELSE calls
    /\ UNCHANGED << fs, dirs, input_files, output_path, progress_callback,
                    total_files, i, writer, reader, j,
                    opened, skipped, fs0, dirs0, envLeft >>
    /\ UNCHANGED others

\* Lines 64-71: one iteration of the validation loop.  It runs before the
\* try of line 77, so an exception out of validate_pdf_file would reach the
\* caller.
FilterStep ==
    /\ pc = "filter"
    /\ pos < Len(input_files)
    /\ LET file_path == input_files[pos + 1] IN
         IF exists(file_path) /\ validate_raises(file_path)
         THEN /\ Propagate
              /\ UNCHANGED << valid_files, validated, pos >>
         ELSE /\ IF exists(file_path) /\ validate_pdf_file(file_path)
                 THEN /\ valid_files' = Append(valid_files, file_path)
                      /\ validated' = Append(validated, fs[file_path])
                 ELSE UNCHANGED << valid_files, validated >>
              /\ pos' = pos + 1
              /\ UNCHANGED << pc, result, ret >>
    /\ UNCHANGED << fs, dirs, input_files, output_path, progress_callback,
                    total_files, i, writer, reader, j, calls,
                    opened, skipped, fs0, dirs0, envLeft >>
    /\ UNCHANGED others

\* A merge that never takes the no-valid-files return.
NoValidFilesUnchecked == FALSE

\* Line 73: `if not valid_files`.
NoValidFiles == valid_files = <<>>

\* Lines 73-79: after the loop, no valid file returns False; otherwise the
\* writer is created and the extraction loop begins.
FilterDone ==
    /\ pc = "filter"
    /\ pos = Len(input_files)
    /\ IF NoValidFiles
       THEN /\ Return(NoValidResult, 75)
            /\ UNCHANGED << writer, total_files, i >>
       ELSE /\ writer' = <<>>
            /\ total_files' = Len(valid_files)
            /\ i' = 0
            /\ pc' = "extract"
            /\ UNCHANGED << result, ret >>
    /\ UNCHANGED << fs, dirs, input_files, output_path, progress_callback, pos,
                    valid_files, reader, j, calls, validated, opened, skipped,
                    fs0, dirs0, envLeft >>
    /\ UNCHANGED others

\* An inner except that gives up: the exception ends the call in failure.
SkipDocumentAborts ==
    /\ skipped' = skipped \cup {i}
    /\ UNCHANGED i
    /\ Return(MergeErrorResult, 111)

\* Lines 93-95: the inner except: the document is logged and skipped, and
\* the loop goes on with the next one.  Nothing is taken back from writer.
SkipDocument ==
    /\ skipped' = skipped \cup {i}
    /\ i' = i + 1
    /\ pc' = "extract"
    /\ UNCHANGED << result, ret >>

\* Lines 81-86: the next document is opened and its reader constructed;
\* either can raise.
OpenDocument ==
    /\ pc = "extract"
    /\ i < total_files
    /\ LET f == fs[valid_files[i + 1]] IN
         /\ opened' = Append(opened, [path |-> valid_files[i + 1], file |-> f])
         /\ IF CanOpen(f) /\ Parses(f)
            THEN /\ reader' = f
                 /\ j' = 0
                 /\ pc' = "pages"
                 /\ UNCHANGED << i, skipped, result, ret >>
            ELSE /\ SkipDocument
                 /\ UNCHANGED << reader, j >>
    /\ UNCHANGED << fs, dirs, input_files, output_path, progress_callback, pos,
                    valid_files, total_files, writer, calls,
                    validated, fs0, dirs0, envLeft >>
    /\ UNCHANGED others

\* A writer that puts each page before those already added.
add_page_in_front(w, page) == << page >> \o w

\* Line 88: PdfWriter.add_page puts the page after those already added.
add_page(w, page) == Append(w, page)

\* A callback given the length of the input list as its total.
ProgressArgsOfInputList == << i + 1, Len(input_files) >>

\* Line 91: the arguments of the callback.
ProgressArgs == << i + 1, total_files >>

\* Lines 90-91: the callback, if there is one, is invoked.
ReportProgress ==
    calls' = IF progress_callback THEN Append(calls, ProgressArgs) ELSE calls

\* Lines 87-91: one iteration of `for page in reader.pages`: the page is
\* added to the writer, or its access raises; after the last page the file
\* is closed, progress is reported and the outer loop goes on.
AddPage ==
    /\ pc = "pages"
    /\ IF j = Len(reader.pages)
       THEN /\ ReportProgress
            /\ i' = i + 1
            /\ pc' = "extract"
            /\ UNCHANGED << writer, j, skipped, result, ret >>
       ELSE IF PageOk(reader, j + 1)
       THEN /\ writer' = add_page(writer, reader.pages[j + 1])
            /\ j' = j + 1
            /\ UNCHANGED << pc, i, skipped, calls, result, ret >>
       ELSE /\ SkipDocument
            /\ UNCHANGED << writer, j, calls >>
    /\ UNCHANGED << fs, dirs, input_files, output_path, progress_callback, pos,
                    valid_files, total_files, reader,
                    validated, opened, fs0, dirs0, envLeft >>
    /\ UNCHANGED others

\* Lines 97-100: after the loop the output directory is created if the path
\* names one that does not exist; os.makedirs can raise (line 109-111).
EnsureOutputDir ==
    /\ pc = "extract"
    /\ i = total_files
    /\ LET output_dir == dirname(output_path) IN
         IF output_dir # <<>> /\ output_dir \notin dirs
         THEN \E made \in BOOLEAN :
                IF made
                THEN /\ dirs' = dirs \cup {output_dir}
                     /\ pc' = "write"
                     /\ UNCHANGED << result, ret >>
                ELSE /\ OuterExcept
                     /\ UNCHANGED dirs
         ELSE /\ pc' = "write"
              /\ UNCHANGED << dirs, result, ret >>
    /\ UNCHANGED << fs, input_files, output_path, progress_callback, pos,
                    valid_files, total_files, i, writer, reader, j, calls,
                    validated, opened, skipped, fs0, dirs0, envLeft >>
    /\ UNCHANGED others

\* An output file opened for appending: the pages follow those it held.
WrittenFileAppended(old, w) == [st |-> "pdf", pages |-> old.pages \o w, bad |-> 0]

\* An output file truncated by open and never written to: not a document.
WrittenFileEmpty(old, w) == Garbage

\* Lines 103-104: open(output_path, 'wb') truncates the file that was there
\* and writer.write puts the writer's pages in it.
WrittenFile(old, w) == [st |-> "pdf", pages |-> w, bad |-> 0]

\* Lines 103-111: open(output_path, 'wb') can raise, leaving the path as it
\* was; it truncates the file, so a raise inside writer.write leaves an
\* incomplete file; otherwise the file holds the writer's pages and the
\* call returns True.
WriteOutput ==
    /\ pc = "write"
    /\ \E outcome \in {"open raises", "write raises", "written"} :
         IF outcome = "open raises"
         THEN /\ OuterExcept
              /\ UNCHANGED fs
         ELSE IF outcome = "write raises"
         THEN /\ OuterExcept
              /\ fs' = [fs EXCEPT ![output_path] = Garbage]
         ELSE /\ Return(TRUE, 107)
              /\ fs' = [fs EXCEPT ![output_path] =
                            WrittenFile(fs[output_path], writer)]
    /\ UNCHANGED << dirs, input_files, output_path, progress_callback, pos,
                    valid_files, total_files, i, writer, reader, j, calls,
                    validated, opened, skipped, fs0, dirs0, envLeft >>
    /\ UNCHANGED others

\* ----------------------------------------------------------- environment
\* Another process deletes or overwrites an input file while the call runs.
\* The changes the call can tell from a different initial filesystem are
\* those to a file it has retained; and since only the call's next read of
\* the file shows a change, the change is taken just before that read: the
\* validation of the path once more, or the opening of the document.  An
\* open reader keeps its file.
EnvChange ==
    /\ pc \in {"filter", "extract"}
    /\ envLeft > 0
    /\ \E p \in { q \in { valid_files[k] : k \in 1..Len(valid_files) } :
                     \/ /\ pc = "filter" /\ pos < Len(input_files)
                        /\ input_files[pos + 1] = q
                     \/ /\ pc = "extract" /\ i < total_files
                        /\ valid_files[i + 1] = q },
          f \in EnvStates :
         /\ fs[p] # f
         /\ fs' = [fs EXCEPT ![p] = f]
    /\ envLeft' = envLeft - 1
    /\ UNCHANGED << dirs, pc, input_files, output_path, progress_callback, pos,
                    valid_files, total_files, i, writer, reader, j, result, ret,
                    calls, validated, opened, skipped, fs0, dirs0 >>
    /\ UNCHANGED others

Next ==
    \/ Call \/ FilterStep \/ FilterDone
    \/ OpenDocument \/ AddPage
    \/ EnsureOutputDir \/ WriteOutput
    \/ EnvChange

\* Any input files; nothing has been called.
InitIdle == Init /\ InfoIdle /\ CallersIdle

\* Nothing but the merge_pdfs call runs.
Spec == InitIdle /\ [][Next]_vars

\* ------------------------------------------------- merge_pdfs called twice
\* After a successful call the caller calls merge_pdfs again with the same
\* arguments: lines 58-62 run again (the list is not empty, the locals are
\* fresh) and the histories start over.
Recall ==
    /\ pc = "done" /\ result = TRUE
    /\ round = 1
    /\ round' = 2
    /\ first_out' = fs[output_path]
    /\ pc' = "filter"
    /\ pos' = 0 /\ valid_files' = <<>> /\ total_files' = 0 /\ i' = 0
    /\ writer' = <<>> /\ reader' = Missing /\ j' = 0
    /\ result' = FALSE /\ ret' = 0 /\ calls' = <<>>
    /\ validated' = <<>> /\ opened' = <<>> /\ skipped' = {}
    /\ fs0' = fs /\ dirs0' = dirs
    /\ UNCHANGED << fs, dirs, input_files, output_path, progress_callback,
                    envLeft, infoVars, twoVars, frontVars >>

\* The input files do not change between or during the two calls.
NextTwice ==
    \/ Call \/ FilterStep \/ FilterDone
    \/ OpenDocument \/ AddPage
    \/ EnsureOutputDir \/ WriteOutput
    \/ Recall

SpecTwice == InitIdle /\ [][NextTwice]_vars

\* ------------------------------------------ two concurrent merge_pdfs calls
\* Two threads call merge_pdfs on one instance.  Everything the method uses
\* is a local of the call (valid_files, writer, total_files, i, reader; self
\* holds the logger only), so each thread has its own copy; the threads share
\* the filesystem.  Here nothing else touches the filesystem and the disk
\* takes every write, so a call that runs alone fails only for want of a
\* valid input.  No callback is passed.
CallLists == UNION { [1..n -> Paths] : n \in 0..MaxCallFiles }
TwoOutPaths == OutPaths \cup {SiblingPath}

\* Thread p calls merge_pdfs, with an output path the other thread does not
\* use; lines 58-60.
TwoCall(p) ==
    /\ p \notin DOMAIN proc
    /\ \E files \in CallLists,
          out \in TwoOutPaths \ { proc[q].output_path : q \in DOMAIN proc } :
         proc' = proc @@ (p :>
                    [IdleProc EXCEPT !.input_files = files,
                                     !.output_path = out,
                                     !.pc = IF files = <<>> THEN "done" ELSE "filter",
                                     !.result = IF files = <<>> THEN NoInputResult ELSE @,
                                     !.ret = IF files = <<>> THEN 60 ELSE @])
    /\ UNCHANGED << fs, dirs, mergeLocals, infoVars, twiceVars, frontVars >>

\* Lines 64-71 in thread p.
TwoFilterStep(p) ==
    /\ p \in DOMAIN proc /\ proc[p].pc = "filter"
    /\ proc[p].pos < Len(proc[p].input_files)
    /\ LET file_path == proc[p].input_files[proc[p].pos + 1] IN
         proc' = [proc EXCEPT ![p] =
                    [@ EXCEPT !.valid_files =
                                  IF exists(file_path) /\ validate_pdf_file(file_path)
                                  THEN Append(@, file_path) ELSE @,
                              !.pos = @ + 1]]
    /\ UNCHANGED << fs, dirs, mergeLocals, infoVars, twiceVars, frontVars >>

\* Lines 73-79 in thread p.
TwoFilterDone(p) ==
    /\ p \in DOMAIN proc /\ proc[p].pc = "filter"
    /\ proc[p].pos = Len(proc[p].input_files)
    /\ proc' = [proc EXCEPT ![p] =
                  IF @.valid_files = <<>>
                  THEN [@ EXCEPT !.pc = "done", !.result = NoValidResult, !.ret = 75]
                  ELSE [@ EXCEPT !.pc = "extract", !.writer = <<>>,
                                 !.total_files = Len(proc[p].valid_files),
                                 !.i = 0]]
    /\ UNCHANGED << fs, dirs, mergeLocals, infoVars, twiceVars, frontVars >>

\* Lines 81-86 and 93-95 in thread p.
TwoOpenDocument(p) ==
    /\ p \in DOMAIN proc /\ proc[p].pc = "extract"
    /\ proc[p].i < proc[p].total_files
    /\ LET f == fs[proc[p].valid_files[proc[p].i + 1]] IN
         proc' = [proc EXCEPT ![p] =
                    IF CanOpen(f) /\ Parses(f)
                    THEN [@ EXCEPT !.reader = f, !.j = 0, !.pc = "pages"]
                    ELSE [@ EXCEPT !.i = @ + 1]]
    /\ UNCHANGED << fs, dirs, mergeLocals, infoVars, twiceVars, frontVars >>

\* Lines 87-95 in thread p.
TwoAddPage(p) ==
    /\ p \in DOMAIN proc /\ proc[p].pc = "pages"
    /\ proc' = [proc EXCEPT ![p] =
                  IF @.j = Len(@.reader.pages)
                  THEN [@ EXCEPT !.i = @ + 1, !.pc = "extract"]
                  ELSE IF PageOk(@.reader, @.j + 1)
                  THEN [@ EXCEPT !.writer = add_page(@, proc[p].reader.pages[proc[p].j + 1]),
                                 !.j = @ + 1]
                  ELSE [@ EXCEPT !.i = @ + 1, !.pc = "extract"]]
    /\ UNCHANGED << fs, dirs, mergeLocals, infoVars, twiceVars, frontVars >>

\* Lines 98-99 in thread p: `if output_dir and not os.path.exists(output_dir)`.
TwoCheckOutputDir(p) ==
    /\ p \in DOMAIN proc /\ proc[p].pc = "extract"
    /\ proc[p].i = proc[p].total_files
    /\ LET output_dir == dirname(proc[p].output_path) IN
         proc' = [proc EXCEPT ![p].pc =
                    IF output_dir # <<>> /\ output_dir \notin dirs
                    THEN "makedirs" ELSE "write"]
    /\ UNCHANGED << fs, dirs, mergeLocals, infoVars, twiceVars, frontVars >>

\* Line 100 in thread p: os.makedirs(output_dir) raises FileExistsError when
\* the directory exists by now; the outer except (lines 109-111) returns
\* False.
TwoMakeDirs(p) ==
    /\ p \in DOMAIN proc /\ proc[p].pc = "makedirs"
    /\ LET output_dir == dirname(proc[p].output_path) IN
         IF output_dir \in dirs
         THEN /\ proc' = [proc EXCEPT ![p] =
                            [@ EXCEPT !.pc = "done", !.result = MergeErrorResult,
                                      !.ret = 111]]
              /\ UNCHANGED dirs
         ELSE /\ dirs' = dirs \cup {output_dir}
              /\ proc' = [proc EXCEPT ![p].pc = "write"]
    /\ UNCHANGED << fs, mergeLocals, infoVars, twiceVars, frontVars >>

\* Lines 103-107 in thread p.
TwoWriteOutput(p) ==
    /\ p \in DOMAIN proc /\ proc[p].pc = "write"
    /\ fs' = [fs EXCEPT ![proc[p].output_path] =
                  WrittenFile(fs[proc[p].output_path], proc[p].writer)]
    /\ proc' = [proc EXCEPT ![p] =
                  [@ EXCEPT !.pc = "done", !.result = TRUE, !.ret = 107]]
    /\ UNCHANGED << dirs, mergeLocals, infoVars, twiceVars, frontVars >>

NextTwo ==
    \E p \in Procs :
        \/ TwoCall(p) \/ TwoFilterStep(p) \/ TwoFilterDone(p)
        \/ TwoOpenDocument(p) \/ TwoAddPage(p)
        \/ TwoCheckOutputDir(p) \/ TwoMakeDirs(p) \/ TwoWriteOutput(p)

SpecTwo == InitIdle /\ [][NextTwo]_vars

\* ------------------------------------- get_pdf_info, get_file_list_info
\* The document information of a file: "none" (the file has no information
\* dictionary: reader.metadata is None), "plain" (one without /Title and
\* /Author), "titled" (one with both).
MetaStates == {"none", "plain", "titled"}
Title(m)  == IF m = "titled" THEN "T" ELSE ""
Author(m) == IF m = "titled" THEN "A" ELSE ""

\* os.path.getsize of an existing file: a rejected file may be empty, a
\* document grows with its pages.
getsize(f) == IF f.st = "pdf" THEN 1 + Len(f.pages) ELSE 0

\* Line 41: the record returned from the except clause.
ZeroInfo == [pages |-> 0, title |-> "", author |-> "", file_size |-> 0]

\* Lines 33-38: the record returned from the try body.
FullInfo(f, m) ==
    [pages |-> Len(f.pages), title |-> Title(m), author |-> Author(m),
     file_size |-> getsize(f)]

\* Lines 31-37: the exception the try body of get_pdf_info raises ("none":
\* it returns the record).  f is the file as opened, m its document
\* information, fstat the file as os.path.getsize finds the path.
InfoException(f, m, fstat) ==
    IF ~CanOpen(f)
    THEN (IF f.st = "missing" THEN "FileNotFoundError" ELSE "PermissionError")
    ELSE IF ~Parses(f) THEN "PdfReadError"
    ELSE IF m = "none" THEN "OtherError"
    ELSE IF fstat.st = "missing" THEN "FileNotFoundError"
    ELSE "none"

\* An except clause that keeps what the try body had read before it raised.
InfoOnExceptionPartial(f, m, fstat) ==
    IF CanOpen(f) /\ Parses(f)
    THEN [pages |-> Len(f.pages), title |-> "", author |-> "", file_size |-> 0]
    ELSE ZeroInfo

\* Lines 39-41: except Exception: log and return the zero record.
InfoOnException(f, m, fstat) == ZeroInfo

\* get_pdf_info.
get_pdf_info(f, m, fstat) ==
    IF InfoException(f, m, fstat) = "none"
    THEN FullInfo(f, m)
    ELSE InfoOnException(f, m, fstat)

\* get_file_list_info is called: lines 115-117.
InfoCall ==
    /\ ipc = "idle"
    /\ \E paths \in InputLists : file_paths' = paths
    /\ total_pages' = 0 /\ total_size' = 0 /\ valid_count' = 0
    /\ ipos' = 0
    /\ ipc' = "loop"
    /\ UNCHANGED << meta, summary, entries, mergeVars, callerVars >>

\* Lines 119-120: the next path is validated; an invalid one adds nothing.
InfoValidate ==
    /\ ipc = "loop"
    /\ ipos < Len(file_paths)
    /\ LET file_path == file_paths[ipos + 1] IN
         IF validate_pdf_file(file_path)
         THEN /\ ipc' = "info"
              /\ entries' = Append(entries, [valid |-> TRUE,
                                             file |-> fs[file_path],
                                             info |-> ZeroInfo])
              /\ UNCHANGED ipos
         ELSE /\ ipos' = ipos + 1
              /\ entries' = Append(entries, [valid |-> FALSE,
                                             file |-> fs[file_path],
                                             info |-> ZeroInfo])
              /\ UNCHANGED ipc
    /\ UNCHANGED << meta, file_paths, total_pages, total_size, valid_count,
                    summary, mergeVars, callerVars >>

\* Lines 121-124: get_pdf_info on the validated path, and the sums.  Another
\* process may delete the file while get_pdf_info has it open, before
\* os.path.getsize.
InfoAdd ==
    /\ ipc = "info"
    /\ LET file_path == file_paths[ipos + 1] IN
       \E gone \in BOOLEAN :
         /\ gone => envLeft > 0 /\ fs[file_path].st # "missing"
         /\ LET fstat == IF gone THEN Missing ELSE fs[file_path]
                info  == get_pdf_info(fs[file_path], meta[file_path], fstat)
            IN /\ total_pages' = total_pages + info.pages
               /\ total_size' = total_size + info.file_size
               /\ valid_count' = valid_count + 1
               /\ entries' = [entries EXCEPT ![Len(entries)].info = info]
               /\ fs' = [fs EXCEPT ![file_path] = fstat]
         /\ envLeft' = IF gone THEN envLeft - 1 ELSE envLeft
    /\ ipos' = ipos + 1
    /\ ipc' = "loop"
    /\ UNCHANGED << meta, file_paths, summary, callerVars >>
    /\ UNCHANGED << dirs, pc, input_files, output_path, progress_callback, pos,
                    valid_files, total_files, i, writer, reader, j, result, ret,
                    calls, validated, opened, skipped, fs0, dirs0 >>

\* Lines 126-131: the summary is returned.
InfoReturn ==
    /\ ipc = "loop"
    /\ ipos = Len(file_paths)
    /\ summary' = [total_files |-> Len(file_paths), valid_files |-> valid_count,
                   total_pages |-> total_pages, total_size |-> total_size]
    /\ ipc' = "done"
    /\ UNCHANGED << meta, file_paths, ipos, total_pages, total_size,
                    valid_count, entries, mergeVars, callerVars >>

\* Another process deletes or overwrites a validated file before
\* get_pdf_info opens it.
InfoEnvChange ==
    /\ ipc = "info"
    /\ envLeft > 0
    /\ \E f \in EnvStates :
         /\ fs[file_paths[ipos + 1]] # f
         /\ fs' = [fs EXCEPT ![file_paths[ipos + 1]] = f]
    /\ envLeft' = envLeft - 1
    /\ UNCHANGED << infoVars, callerVars >>
    /\ UNCHANGED << dirs, pc, input_files, output_path, progress_callback, pos,
                    valid_files, total_files, i, writer, reader, j, result, ret,
                    calls, validated, opened, skipped, fs0, dirs0 >>

\* One get_file_list_info call over any input files with any document
\* information.
InfoInit ==
    /\ Init /\ CallersIdle
    /\ meta \in [Paths -> MetaStates]
    /\ file_paths = <<>> /\ ipc = "idle" /\ ipos = 0
    /\ total_pages = 0 /\ total_size = 0 /\ valid_count = 0
    /\ summary = [total_files |-> 0, valid_files |-> 0,
                  total_pages |-> 0, total_size |-> 0]
    /\ entries = <<>>

InfoNext == InfoCall \/ InfoValidate \/ InfoAdd \/ InfoReturn \/ InfoEnvChange

SpecInfo == InfoInit /\ [][InfoNext]_vars

\* ------------------------------------------------------- the web front end
\* One job id stands for the uuid4 of an upload; a job is the dict stored
\* under it.  Of a file_info entry the model keeps filename, path and valid.
\* `del merge_jobs[job_id]` takes the dict out of the global dict, but the
\* requests and threads that hold it in `job` go on using it: merge_jobs
\* keeps the dict of a deleted job and removed_by lists its id.
JobIds == {"job"}

\* The keys of the global dict: `job_id in merge_jobs`.
Registered == DOMAIN merge_jobs \ DOMAIN removed_by

\* The path the k-th file of an upload is saved at (lines 96-98), and None.
Saved(k) == << "upload", k >>
None == << >>

\* Lines 224-225: the output path of a job's merge thread.
OutputPath(id) == << "upload", id, "merged.pdf" >>

\* The elements of a list.
Range(list) == { list[k] : k \in 1..Len(list) }

\* The disk of the web front end and its histories.
webDisk == << upload_folder, saved_files, removed_by >>

\* Lines 104-129: the file_info entry of the k-th file: its path if it
\* validated, None if it did not.
InfoEntry(k, ok) ==
    [filename |-> k, path |-> IF ok THEN Saved(k) ELSE None, valid |-> ok]

\* Lines 134-143: the job a successful upload stores.
NewJob(uploaded_files, file_info) ==
    [status |-> "uploaded", uploaded_files |-> uploaded_files,
     file_info |-> file_info, progress |-> 0, output_path |-> None,
     error |-> None]

\* POST /upload, lines 73-156: n files arrive, ok[k] telling whether the
\* k-th validates.  Every file gets a file_info entry; only the valid ones
\* are appended to uploaded_files and stay on disk (lines 101, 117-118).
\* With no valid file the handler answers 400 and stores nothing (lines
\* 131-132).  The id is a fresh uuid4: never one used before.
upload_files ==
    /\ \E id \in JobIds \ DOMAIN merge_jobs, n \in 1..MaxUpload :
       \E ok \in [1..n -> BOOLEAN] :
         LET kept  == SelectSeq([k \in 1..n |-> k], LAMBDA k : ok[k])
             uploaded_files == [m \in 1..Len(kept) |-> Saved(kept[m])]
             file_info == [k \in 1..n |-> InfoEntry(k, ok[k])]
         IN /\ uploaded_files # << >>
            /\ merge_jobs' = merge_jobs @@ (id :> NewJob(uploaded_files, file_info))
            /\ upload_folder' = upload_folder \cup Range(uploaded_files)
            /\ saved_files' = saved_files @@ (id :> Range(uploaded_files))
    /\ UNCHANGED << mreq, thr, removed_by, coreVars, guiVars >>

\* The `order` lists a /reorder request can carry: 0-based indices, some out
\* of range.
Orders == UNION { [1..n -> (-1)..MaxUpload] : n \in 0..MaxUpload }

\* POST /reorder, lines 158-192: both lists are rebuilt from the indices of
\* new_order that are in range of uploaded_files.  A request for a job that
\* is not 'uploaded' changes nothing (lines 170-171).
reorder_files ==
    /\ \E id \in Registered, new_order \in Orders :
         /\ merge_jobs[id].status = "uploaded"
         /\ LET original_files == merge_jobs[id].uploaded_files
                original_info  == merge_jobs[id].file_info
                valid_indices  == SelectSeq(new_order,
                                    LAMBDA x : 0 <= x /\ x < Len(original_files))
            IN merge_jobs' = [merge_jobs EXCEPT
                 ![id].uploaded_files =
                     [k \in 1..Len(valid_indices) |-> original_files[valid_indices[k] + 1]],
                 ![id].file_info =
                     [k \in 1..Len(valid_indices) |-> original_info[valid_indices[k] + 1]]]
    /\ UNCHANGED << mreq, thr, webDisk, coreVars, guiVars >>

\* POST /merge, lines 194-210: the request finds the job and tests its
\* status and its files; it is refused (400) or goes on.  The requests are
\* numbered in the order they reach the test.
MergeCheck(r) ==
    /\ r \notin DOMAIN mreq
    /\ \A q \in 1..(r - 1) : q \in DOMAIN mreq
    /\ \E id \in Registered :
         mreq' = mreq @@ (r :>
                    [pc |-> IF merge_jobs[id].status # "uploaded"
                               \/ merge_jobs[id].uploaded_files = << >>
                            THEN "refused" ELSE "checked",
                     job_id |-> id])
    /\ UNCHANGED << merge_jobs, thr, webDisk, coreVars, guiVars >>

\* Lines 218-251: the request that passed the tests sets the status to
\* 'merging' and the progress to 0 and starts its merge thread.  No lock is
\* held between the tests and here.
MergeStart(r) ==
    /\ r \in DOMAIN mreq /\ mreq[r].pc = "checked"
    /\ LET id == mreq[r].job_id IN
         /\ merge_jobs' = [merge_jobs EXCEPT ![id].status = "merging",
                                              ![id].progress = 0]
         /\ thr' = thr @@ (r :>
                      [pc |-> "merging", job_id |-> id, outcome |-> "",
                       current |-> 0,
                       total |-> Len(merge_jobs[id].uploaded_files)])
    /\ mreq' = [mreq EXCEPT ![r].pc = "started"]
    /\ UNCHANGED << webDisk, coreVars, guiVars >>

\* Lines 228-229: merge_pdfs calls progress_callback, which stores the
\* percentage in the job.
ThreadProgress(r) ==
    /\ r \in DOMAIN thr /\ thr[r].pc = "merging"
    /\ thr[r].current < thr[r].total
    /\ thr' = [thr EXCEPT ![r].current = @ + 1]
    /\ merge_jobs' = [merge_jobs EXCEPT ![thr[r].job_id].progress =
                          ((thr[r].current + 1) * 100) \div thr[r].total]
    /\ UNCHANGED << mreq, webDisk, coreVars, guiVars >>

\* Lines 231-237, 245: merger.merge_pdfs returns True or False, or an
\* exception leaves the try body.  It returns True only if one of the job's
\* files is still on disk to be read, and it has then written the output.
\* The call's count of files done ends with the call.
ThreadMerge(r) ==
    /\ r \in DOMAIN thr /\ thr[r].pc = "merging"
    /\ \E outcome \in {"success", "failure", "exception"} :
         LET id == thr[r].job_id IN
         /\ outcome = "success" =>
               Range(merge_jobs[id].uploaded_files) \cap upload_folder # {}
         /\ thr' = [thr EXCEPT ![r].pc = "returned", ![r].outcome = outcome,
                                ![r].current = 0]
         /\ upload_folder' = IF outcome = "success"
                              THEN upload_folder \cup {OutputPath(id)}
                              ELSE upload_folder
    /\ UNCHANGED << merge_jobs, mreq, saved_files, removed_by, coreVars, guiVars >>

\* A merge thread whose except clause (lines 245-247) is left out: an
\* exception ends the thread with the status untouched.
TerminalStatusUncaught(outcome) ==
    IF outcome = "success" THEN "completed"
    ELSE IF outcome = "failure" THEN "failed" ELSE "merging"

\* Lines 237-247: the status the thread stores for an outcome of the merge.
TerminalStatus(outcome) ==
    IF outcome = "success" THEN "completed" ELSE "failed"

\* Lines 238, 242, 246: the thread stores the terminal status.
ThreadSetStatus(r) ==
    /\ r \in DOMAIN thr /\ thr[r].pc = "returned"
    /\ merge_jobs' = [merge_jobs EXCEPT ![thr[r].job_id].status =
                          TerminalStatus(thr[r].outcome)]
    /\ thr' = [thr EXCEPT ![r].pc =
                  IF thr[r].outcome = "success" THEN "path" ELSE "error"]
    /\ UNCHANGED << mreq, webDisk, coreVars, guiVars >>

\* Line 239: job['output_path'] = output_path.
ThreadSetOutputPath(r) ==
    /\ r \in DOMAIN thr /\ thr[r].pc = "path"
    /\ merge_jobs' = [merge_jobs EXCEPT ![thr[r].job_id].output_path =
                          OutputPath(thr[r].job_id)]
    /\ thr' = [thr EXCEPT ![r].pc = "progress"]
    /\ UNCHANGED << mreq, webDisk, coreVars, guiVars >>

\* Line 240: job['progress'] = 100.
ThreadSetProgress(r) ==
    /\ r \in DOMAIN thr /\ thr[r].pc = "progress"
    /\ merge_jobs' = [merge_jobs EXCEPT ![thr[r].job_id].progress = 100]
    /\ thr' = [thr EXCEPT ![r].pc = "done"]
    /\ UNCHANGED << mreq, webDisk, coreVars, guiVars >>

\* Lines 243, 247: job['error'] is set.
ThreadSetError(r) ==
    /\ r \in DOMAIN thr /\ thr[r].pc = "error"
    /\ merge_jobs' = [merge_jobs EXCEPT ![thr[r].job_id].error = << thr[r].outcome >>]
    /\ thr' = [thr EXCEPT ![r].pc = "done"]
    /\ UNCHANGED << mreq, webDisk, coreVars, guiVars >>

\* Lines 46-60, 306-318: the job's uploaded files are removed, and its
\* output file if job['output_path'] names one.
FilesRemoved(job) ==
    Range(job.uploaded_files)
      \cup (IF job.output_path # None THEN {job.output_path} ELSE {})

\* DELETE /delete, lines 297-325: the job's files are removed and then its
\* entry in merge_jobs.
delete_job ==
    /\ \E id \in Registered :
         /\ upload_folder' = upload_folder \ FilesRemoved(merge_jobs[id])
         /\ removed_by' = removed_by @@ (id :> "delete_job")
    /\ UNCHANGED << merge_jobs, mreq, thr, saved_files, coreVars, guiVars >>

\* GET /, lines 39-65: the jobs created more than an hour ago (any job, the
\* clock being free) lose their files and their entries.
cleanup_old_files ==
    /\ \E to_remove \in SUBSET Registered :
         /\ to_remove # {}
         /\ upload_folder' = upload_folder
               \ UNION { FilesRemoved(merge_jobs[id]) : id \in to_remove }
         /\ removed_by' = removed_by
               @@ [id \in to_remove |-> "cleanup_old_files"]
    /\ UNCHANGED << merge_jobs, mreq, thr, saved_files, coreVars, guiVars >>

\* GET /status, lines 258-273: what the handler answers in the current state.
get_status(job_id) ==
    IF job_id \notin Registered
    THEN [error |-> "Job not found"]
    ELSE [status     |-> merge_jobs[job_id].status,
          progress   |-> merge_jobs[job_id].progress,
          error      |-> merge_jobs[job_id].error,
          file_count |-> Len(merge_jobs[job_id].uploaded_files)]

\* GET /download, lines 275-295: what the handler answers in the current
\* state.
download_file(job_id) ==
    IF job_id \notin Registered THEN "Job not found"
    ELSE IF merge_jobs[job_id].status # "completed"
            \/ merge_jobs[job_id].output_path = None
         THEN "File not ready for download"
    ELSE IF merge_jobs[job_id].output_path \notin upload_folder
         THEN "Output file not found"
    ELSE "send_file"

NextWeb ==
    \/ upload_files
    \/ reorder_files
    \/ delete_job
    \/ cleanup_old_files
    \/ \E r \in Reqs :
         \/ MergeCheck(r) \/ MergeStart(r)
         \/ ThreadProgress(r) \/ ThreadMerge(r) \/ ThreadSetStatus(r)
         \/ ThreadSetOutputPath(r) \/ ThreadSetProgress(r) \/ ThreadSetError(r)

\* The front ends are modelled over the engine's outcomes, not over the
\* files' content: the input files are one-page documents and no output
\* exists.
PlainDisk ==
    /\ fs = [p \in AllPaths |-> IF p \in Paths THEN Pdf(p, 1, 0) ELSE Missing]
    /\ dirs = {}

WebInit == InitIdle /\ PlainDisk

SpecWeb == WebInit /\ [][NextWeb]_vars

\* A started thread is scheduled until it ends, and its merge_pdfs call
\* returns or raises.  Nothing is assumed of the requests.
ThreadFair ==
    \A r \in Reqs :
        /\ WF_vars(ThreadMerge(r))
        /\ WF_vars(ThreadSetStatus(r))
        /\ WF_vars(ThreadSetOutputPath(r))
        /\ WF_vars(ThreadSetProgress(r))
        /\ WF_vars(ThreadSetError(r))

\* The server holds one job of one valid file, as upload_files leaves it.
WebUploaded ==
    \E id \in JobIds :
        LET n == 1
            uploaded_files == [k \in 1..n |-> Saved(k)]
            file_info == [k \in 1..n |-> InfoEntry(k, TRUE)]
        IN /\ merge_jobs = (id :> NewJob(uploaded_files, file_info))
           /\ upload_folder = Range(uploaded_files)
           /\ saved_files = (id :> Range(uploaded_files))
           /\ mreq = << >> /\ thr = << >> /\ removed_by = << >>

WebFairInit ==
    /\ Init /\ InfoIdle /\ TwiceIdle /\ TwoIdle /\ GuiIdle /\ PlainDisk
    /\ WebUploaded

\* What happens to a job from its first /merge request on: /reorder is
\* refused from then on (lines 170-171), and the job can be deleted.
NextWebFair ==
    \/ delete_job
    \/ \E r \in Reqs :
         \/ MergeCheck(r) \/ MergeStart(r)
         \/ ThreadProgress(r) \/ ThreadMerge(r) \/ ThreadSetStatus(r)
         \/ ThreadSetOutputPath(r) \/ ThreadSetProgress(r) \/ ThreadSetError(r)

SpecWebFair == WebFairInit /\ [][NextWebFair]_vars /\ ThreadFair

\* ------------------------------------------------------- the GUI front end
\* The paths the user can pick in the file dialog or drop on the window.
GuiPaths == Paths \cup {SiblingPath}
FileLists == UNION { [1..n -> GuiPaths] : n \in 1..MaxFiles }

\* A row of the tree: the id Tk gave the item and the path it was inserted
\* for.  Tk never gives two live items one id; the model takes the least id
\* no row has.
RowIds(tree) == { tree[k].iid : k \in 1..Len(tree) }
NewRow(tree, file_path) ==
    [iid |-> CHOOSE n \in 1..(Len(tree) + 1) :
                /\ n \notin RowIds(tree)
                /\ \A m \in 1..(n - 1) : m \in RowIds(tree),
     made_for |-> file_path]

\* file_tree.index(item), counted from 1.
RowIndex(tree, iid) == CHOOSE k \in 1..Len(tree) : tree[k].iid = iid

\* `del seq[k]`, k counted from 1.
DelAt(seq, k) == SubSeq(seq, 1, k - 1) \o SubSeq(seq, k + 1, Len(seq))

\* file_tree.move(item, '', to): the row at k is taken out and put back at
\* position `to` of what is left.
MoveRow(tree, k, to) ==
    LET rest == DelAt(tree, k) IN
    SubSeq(rest, 1, to - 1) \o << tree[k] >> \o SubSeq(rest, to, Len(rest))

\* `a[k], a[m] = a[m], a[k]`.
Swap(seq, k, m) == [seq EXCEPT ![k] = seq[m], ![m] = seq[k]]

\* A membership test that finds nothing.
AlreadyListedNever(file_path, paths) == FALSE

\* Line 182: `file_path in self.file_paths`.
AlreadyListed(file_path, paths) ==
    \E k \in 1..Len(paths) : paths[k] = file_path

\* Lines 181-197: the loop of add_files_to_list over `files`, from the list
\* and the tree it finds: a path not yet listed that validates is appended
\* to the list and gets a new last row.
RECURSIVE AddFiles(_, _, _)
AddFiles(files, paths, tree) ==
    IF files = << >> THEN [paths |-> paths, tree |-> tree]
    ELSE LET file_path == Head(files) IN
         IF ~AlreadyListed(file_path, paths) /\ validate_pdf_file(file_path)
         THEN AddFiles(Tail(files), Append(paths, file_path),
                       Append(tree, NewRow(tree, file_path)))
         ELSE AddFiles(Tail(files), paths, tree)

\* Lines 216-217: the indices are deleted from the list, greatest first.
RECURSIVE DeleteDescending(_, _)
DeleteDescending(paths, indices) ==
    IF indices = {} THEN paths
    ELSE LET index == CHOOSE k \in indices : \A m \in indices : m <= k IN
         DeleteDescending(DelAt(paths, index), indices \ {index})

\* Lines 295-300: update_merge_button_state, for the list as it will be.
MergeButtonState(paths, output) ==
    IF paths # << >> /\ output # "" THEN "normal" ELSE "disabled"

\* The user selects rows of the tree (selectmode is 'extended').
Select ==
    /\ \E rows \in SUBSET RowIds(file_tree) :
         /\ rows # selection
         /\ selection' = rows
    /\ UNCHANGED << self_file_paths, file_tree, output_var, merge_button,
                    gui_last, gui_thr, coreVars, webVars >>

\* Lines 169-200: add_files or on_drop hand a non-empty list of paths to
\* add_files_to_list; the button is updated if something was added.
add_files_to_list ==
    /\ \E files \in FileLists :
         LET added == AddFiles(files, self_file_paths, file_tree) IN
         /\ self_file_paths' = added.paths
         /\ file_tree' = added.tree
         /\ merge_button' = IF Len(added.paths) > Len(self_file_paths)
                            THEN MergeButtonState(added.paths, output_var)
                            ELSE merge_button
    /\ gui_last' = "add_files_to_list"
    /\ UNCHANGED << selection, output_var, gui_thr, coreVars, webVars >>

\* Lines 202-223: remove_selected; with nothing selected it only warns.
remove_selected ==
    /\ selection # {}
    /\ LET indices_to_remove == { RowIndex(file_tree, item) : item \in selection }
           paths == DeleteDescending(self_file_paths, indices_to_remove)
       IN /\ self_file_paths' = paths
          /\ merge_button' = MergeButtonState(paths, output_var)
    /\ file_tree' = SelectSeq(file_tree, LAMBDA row : row.iid \notin selection)
    /\ selection' = {}
    /\ gui_last' = "remove_selected"
    /\ UNCHANGED << output_var, gui_thr, coreVars, webVars >>

\* Lines 225-233: clear_all, when the list is not empty and the user
\* confirms.
clear_all ==
    /\ self_file_paths # << >>
    /\ self_file_paths' = << >>
    /\ file_tree' = << >>
    /\ selection' = {}
    /\ merge_button' = MergeButtonState(<< >>, output_var)
    /\ gui_last' = "clear_all"
    /\ UNCHANGED << output_var, gui_thr, coreVars, webVars >>

\* Lines 235-252: move_up, with exactly one row selected; the first row
\* stays where it is.
move_up ==
    /\ Cardinality(selection) = 1
    /\ LET item == CHOOSE it \in selection : TRUE
           index == RowIndex(file_tree, item)
       IN IF index > 1
          THEN /\ self_file_paths' = Swap(self_file_paths, index, index - 1)
               /\ file_tree' = MoveRow(file_tree, index, index - 1)
          ELSE UNCHANGED << self_file_paths, file_tree >>
    /\ gui_last' = "move_up"
    /\ UNCHANGED << selection, output_var, merge_button, gui_thr,
                    coreVars, webVars >>

\* Lines 254-271: move_down, with exactly one row selected; the last row
\* stays where it is.
move_down ==
    /\ Cardinality(selection) = 1
    /\ LET item == CHOOSE it \in selection : TRUE
           index == RowIndex(file_tree, item)
       IN IF index < Len(self_file_paths)
          THEN /\ self_file_paths' = Swap(self_file_paths, index, index + 1)
               /\ file_tree' = MoveRow(file_tree, index, index + 1)
          ELSE UNCHANGED << self_file_paths, file_tree >>
    /\ gui_last' = "move_down"
    /\ UNCHANGED << selection, output_var, merge_button, gui_thr,
                    coreVars, webVars >>

\* Lines 273-282: browse_output, when the user picks a file name.
browse_output ==
    /\ output_var' = "merged.pdf"
    /\ merge_button' = MergeButtonState(self_file_paths, "merged.pdf")
    /\ gui_last' = "browse_output"
    /\ UNCHANGED << self_file_paths, file_tree, selection, gui_thr,
                    coreVars, webVars >>

\* The merge threads that have not had their merge_complete call yet.
MergesUnderWay == gui_thr.running + gui_thr.queued

\* Lines 302-322: the user presses the enabled merge button.  With no file
\* or no output path start_merge only warns; otherwise it disables the
\* button and starts a merge thread on a copy of the list.
start_merge ==
    /\ merge_button = "normal"
    /\ MergesUnderWay < MaxGuiMerges
    /\ IF self_file_paths = << >> \/ output_var = ""
       THEN UNCHANGED << merge_button, gui_thr >>
       ELSE /\ merge_button' = "disabled"
            /\ gui_thr' = [gui_thr EXCEPT !.running = @ + 1]
    /\ gui_last' = "start_merge"
    /\ UNCHANGED << self_file_paths, file_tree, selection, output_var,
                    coreVars, webVars >>

\* Lines 324-335: a merge thread's merge_pdfs call returns and the thread
\* queues merge_complete for the main thread.
merge_pdfs_thread ==
    /\ gui_thr.running > 0
    /\ gui_thr' = [running |-> gui_thr.running - 1,
                   queued |-> gui_thr.queued + 1]
    /\ UNCHANGED << self_file_paths, file_tree, selection, output_var,
                    merge_button, gui_last, coreVars, webVars >>

\* Lines 337-349: the main thread runs a queued merge_complete, which
\* enables the button.
merge_complete ==
    /\ gui_thr.queued > 0
    /\ gui_thr' = [gui_thr EXCEPT !.queued = @ - 1]
    /\ merge_button' = "normal"
    /\ gui_last' = "merge_complete"
    /\ UNCHANGED << self_file_paths, file_tree, selection, output_var,
                    coreVars, webVars >>

NextGui ==
    \/ Select
    \/ add_files_to_list
    \/ remove_selected \/ clear_all
    \/ move_up \/ move_down
    \/ browse_output

\* Of a file the list handlers use what validate_pdf_file says: each file
\* the user can pick is a one-page document, a file that is no document, or
\* (the third one) missing.
GuiDisk ==
    \A p \in Paths : fs[p] \in {Pdf(p, 1, 0), Garbage}

GuiInit == InitIdle /\ GuiDisk

\* The list handlers alone: no merge is started.
SpecGui == GuiInit /\ [][NextGui]_vars

\* The list handlers and the merge.
NextGuiMerge ==
    \/ NextGui
    \/ start_merge \/ merge_pdfs_thread \/ merge_complete

SpecGuiMerge == GuiInit /\ [][NextGuiMerge]_vars

\* ================================================================ claims
returned  == pc = "done"
Succeeded == returned /\ result = TRUE
\* The pages the output path holds.
OutputPages == fs[output_path].pages

RECURSIVE Flatten(_)
Flatten(ss) == IF ss = <<>> THEN <<>> ELSE Head(ss) \o Flatten(Tail(ss))

\* The pages the extraction loop takes from a file it finds as f: all of
\* them, or those before the first page whose access raises, or none when
\* the file does not open or parse.
PagesRead(f) ==
    IF ~(CanOpen(f) /\ Parses(f)) THEN <<>>
    ELSE IF f.bad = 0 THEN f.pages
    ELSE SubSeq(f.pages, 1, f.bad - 1)

\* C1 as stated: when the merge succeeds the output is the concatenation, in
\* input-list order, of the full page streams of the documents retained
\* after filtering.
C1_OutputIsAllRetainedStreams ==
    Succeeded =>
        OutputPages = Flatten([k \in 1..Len(validated) |-> validated[k].pages])

\* C1 as amended: when the merge succeeds the output is the concatenation,
\* in input-list order (a path listed twice contributing twice), of what was
\* read from each retained document: its full page stream when its
\* extraction completed, only the pages before the failure when it did not;
\* so when no extraction fails the output has sum(pi) pages, document by
\* document.
C1_OutputIsWhatWasRead ==
    Succeeded =>
        /\ Len(opened) = Len(valid_files)
        /\ \A k \in 1..Len(opened) : opened[k].path = valid_files[k]
        /\ OutputPages = Flatten([k \in 1..Len(opened) |-> PagesRead(opened[k].file)])
        /\ skipped = {} =>
             OutputPages = Flatten([k \in 1..Len(validated) |-> validated[k].pages])

\* C1 witness: three retained documents, the first path listed twice, of 2, 1
\* and 2 pages, merged into 5.
C1_Witness ==
    /\ Succeeded
    /\ Len(valid_files) = 3
    /\ valid_files[1] = valid_files[3]
    /\ valid_files[1] # valid_files[2]
    /\ skipped = {}
    /\ Len(validated[1].pages) = 2
    /\ Len(validated[2].pages) = 1
    /\ Len(OutputPages) = 5

\* C2: a call that ends with no valid file (the list was empty, or every
\* path was missing or failed validation) returns failure and has written
\* nothing: every output path holds what it held and no directory was made.
C2_NoValidInputsWritesNothing ==
    (returned /\ valid_files = <<>>) =>
        /\ result = FALSE
        /\ \A p \in OutPaths : fs[p] = fs0[p]
        /\ dirs = dirs0

\* C2 witness: every listed path failed the filter, in a filesystem where the
\* output path's directory does not exist.
C2_Witness ==
    /\ returned
    /\ Len(input_files) >= 2
    /\ valid_files = <<>>
    /\ Len(output_path) > 1
    /\ dirname(output_path) \notin dirs
    /\ \E k \in 1..Len(input_files) : fs[input_files[k]].st = "garbage"
    /\ \E k \in 1..Len(input_files) : fs[input_files[k]].st = "missing"

\* C3: during a call with a progress callback, the callback is invoked once
\* for every document retained after filtering, extracted or skipped: once
\* the extraction loop is over there are as many invocations as retained
\* documents.
C3_OneCallbackPerRetained ==
    (progress_callback /\ pc \in {"write", "done"} /\ valid_files # <<>>) =>
        Len(calls) = Len(valid_files)

\* C4: whenever the call returns success and a callback was supplied, the
\* last invocation has completed = total.
C4_LastCallbackIsTotal ==
    (Succeeded /\ progress_callback /\ calls # <<>>) =>
        calls[Len(calls)] = << Len(valid_files), Len(valid_files) >>

\* The number of pages the call has written to the output path.
PagesWritten ==
    IF fs[output_path] # fs0[output_path] /\ fs[output_path].st = "pdf"
    THEN Len(OutputPages)
    ELSE 0

\* C5: the call returns success if and only if at least one page was
\* written to the output.
C5_SuccessIffPageWritten ==
    returned => (result = TRUE <=> PagesWritten >= 1)

\* C6: a document skipped because its extraction failed contributes no pages:
\* a successful merge's output is the concatenation of the page streams of
\* the documents that were not skipped.
C6_SkippedContributesNothing ==
    Succeeded =>
        OutputPages = Flatten([k \in 1..Len(opened) |->
                                 IF (k - 1) \in skipped THEN <<>>
                                 ELSE opened[k].file.pages])

\* Where the pages of the k-th retained document begin in the writer.
Offset(k) == Len(Flatten([m \in 1..(k - 1) |-> PagesRead(opened[m].file)]))

\* C7: a retained document whose extraction fails does not abort the merge:
\* the call never returns from inside the extraction loop, every retained
\* document is opened in order, and in the written output each document that
\* was not skipped has its whole page stream, in order, after those of the
\* documents before it.
C7_SkipDoesNotAbort ==
    /\ (returned /\ valid_files # <<>>) =>
          /\ i = total_files
          /\ Len(opened) = total_files
          /\ \A k \in 1..total_files : opened[k].path = valid_files[k]
    /\ Succeeded =>
          \A k \in 1..Len(opened) :
              (k - 1) \notin skipped =>
                  SubSeq(OutputPages, Offset(k) + 1,
                         Offset(k) + Len(opened[k].file.pages))
                      = opened[k].file.pages

\* C7 witness: the first of three retained documents became unreadable after
\* validation and was skipped; the other two were extracted and written.
C7_Witness ==
    /\ Succeeded
    /\ total_files = 3
    /\ skipped = {0}
    /\ validated[1].st = "pdf"
    /\ opened[1].file.st \in {"missing", "garbage"}
    /\ Len(opened[2].file.pages) = 2
    /\ Len(opened[3].file.pages) = 2
    /\ Len(OutputPages) = 4

\* C8: the callback's completed values are strictly increasing and lie in
\* 1..total, and total is on every call the number of documents retained
\* after filtering; three valid inputs give (1,3) (2,3) (3,3).
C8_ProgressIncreasesToTotal ==
    /\ \A k \in 1..Len(calls) :
          /\ calls[k][2] = Len(valid_files)
          /\ calls[k][1] \in 1..Len(valid_files)
          /\ k > 1 => calls[k - 1][1] < calls[k][1]
    /\ (returned /\ progress_callback /\ Len(valid_files) = 3 /\ skipped = {}) =>
          calls = << <<1, 3>>, <<2, 3>>, <<3, 3>> >>

\* C8 witness: three inputs, one of them dropped by the filter, and the two
\* retained reported as (1,2) (2,2).
C8_Witness ==
    /\ Succeeded
    /\ Len(input_files) = 3
    /\ calls = << <<1, 2>>, <<2, 2>> >>

\* C9: the callback is never invoked in a call that short-circuits because
\* the list is empty or nothing passes the filter.
C9_NoCallbackOnShortCircuit ==
    (returned /\ valid_files = <<>>) => calls = <<>>

\* C9 witness: a call with a callback and two listed paths, both dropped.
C9_Witness ==
    /\ returned
    /\ progress_callback
    /\ Len(input_files) = 2
    /\ valid_files = <<>>
    /\ ret = 75

\* C10: the failure returned when no valid input remains differs from the
\* failure returned when the output directory cannot be created or the
\* output file cannot be written.
C10_NoValidInputsDiffersFromMergeError ==
    (returned /\ ret \in {60, 75}) => result # MergeErrorResult

\* C11: merge_pdfs never raises to its caller: from every point of the call
\* it goes on to a return statement; a per-document failure leaves the call
\* running, and a failure to create the output directory or to write the
\* output file ends it with the False of the outer except.
C11_NeverRaises ==
    /\ pc # "raised"
    /\ pc \notin {"idle", "done"} => ENABLED Next
    /\ returned => ret \in {60, 75, 107, 111}
    /\ (returned /\ ret = 111) => result = FALSE

\* C11 witness: a call that skipped a document and then failed to write its
\* output returned False.
C11_Witness ==
    /\ returned
    /\ ret = 111
    /\ skipped # {}
    /\ fs[output_path] = Garbage

\* C12: validate_pdf_file never raises, and is true exactly of a file that
\* opens, parses and whose first page, if it has one, is accessible: false
\* for a missing path, a permission error and a file PdfReader rejects (a
\* zero-byte file, a non-conforming header), true for a well-formed document
\* with zero pages.
C12_ValidateIsTotal ==
    /\ pc # "raised"
    /\ \A p \in AllPaths :
          LET f == fs[p] IN
          /\ ~validate_raises(p)
          /\ validate_pdf_file(p) <=>
                (CanOpen(f) /\ Parses(f) /\ (f.pages # <<>> => PageOk(f, 1)))
          /\ f.st \in {"missing", "denied", "garbage"} => ~validate_pdf_file(p)
          /\ (f.st = "pdf" /\ f.pages = <<>>) => validate_pdf_file(p)

\* C12 witness: the validation loop has kept a zero-page document and dropped
\* a document whose first page cannot be read.
C12_Witness ==
    /\ pc = "filter"
    /\ pos = 2
    /\ Len(valid_files) = 1
    /\ validated[1].pages = <<>>
    /\ \E k \in 1..2 : /\ fs[input_files[k]].st = "pdf"
                       /\ fs[input_files[k]].bad = 1

\* C13: get_pdf_info never raises and is all-or-nothing: whatever the file,
\* it returns the zero record when anything in the try body fails (the open,
\* the parse, the document information, the file size) and the full record
\* otherwise, never a record with only some of the fields filled.
C13_InfoAllOrNothing ==
    /\ \A p \in Paths : \A fstat \in {fs[p], Missing} :
          LET info == get_pdf_info(fs[p], meta[p], fstat) IN
          /\ info \in {ZeroInfo, FullInfo(fs[p], meta[p])}
          /\ info = ZeroInfo <=>
                ~(/\ CanOpen(fs[p]) /\ Parses(fs[p])
                  /\ meta[p] # "none" /\ fstat.st # "missing")
    /\ \A k \in 1..Len(entries) :
          \/ entries[k].info = ZeroInfo
          \/ /\ entries[k].valid
             /\ entries[k].info
                  = FullInfo(entries[k].file, meta[file_paths[k]])

\* C13 witness: get_file_list_info got the zero record for a two-page
\* document deleted while get_pdf_info had it open, and the full record for a
\* titled one.
C13_Witness ==
    /\ ipc = "done"
    /\ Len(entries) = 2
    /\ entries[1].valid /\ Len(entries[1].file.pages) = 2
    /\ entries[1].info = ZeroInfo
    /\ meta[file_paths[1]] # "none"
    /\ entries[2].info.title = "T"
    /\ entries[2].info.pages = 1

RECURSIVE SumSeq(_)
SumSeq(ns) == IF ns = <<>> THEN 0 ELSE Head(ns) + SumSeq(Tail(ns))

\* Per entry: 1, the page count and the size of a valid one, 0 of an invalid.
ValidOnes  == [k \in 1..Len(entries) |-> IF entries[k].valid THEN 1 ELSE 0]
ValidPages == [k \in 1..Len(entries) |->
                 IF entries[k].valid THEN Len(entries[k].file.pages) ELSE 0]
ValidSizes == [k \in 1..Len(entries) |->
                 IF entries[k].valid THEN getsize(entries[k].file) ELSE 0]

\* C14: get_file_list_info returns total_files = the list's length,
\* valid_files = the number of entries that validate, and total_pages and
\* total_size = the sums of the page counts and sizes of exactly the valid
\* entries.
C14_SummaryCountsValidEntries ==
    ipc = "done" =>
        /\ summary.total_files = Len(file_paths)
        /\ summary.valid_files = SumSeq(ValidOnes)
        /\ summary.valid_files <= summary.total_files
        /\ summary.total_pages = SumSeq(ValidPages)
        /\ summary.total_size = SumSeq(ValidSizes)
\* The output a call that skips nothing it should not writes from the input
\* files as they are: the retained inputs' pages, in order.
ExpectedOutput ==
    Flatten([k \in 1..Len(valid_files) |-> PagesRead(fs[valid_files[k]])])

\* C15: with unchanged inputs, a successful merge_pdfs leaves at the output
\* path the pages taken from the retained inputs, in order, whatever the path
\* held before; so the repeated call leaves the pages the first call left,
\* not those pages twice.
C15_RepeatedMergeOverwrites ==
    Succeeded =>
        /\ OutputPages = ExpectedOutput
        /\ round = 2 => OutputPages = first_out.pages

\* The repeated call succeeds over the two-or-more pages the first one wrote.
C15_Witness ==
    /\ Succeeded /\ round = 2
    /\ first_out.st = "pdf"
    /\ Len(first_out.pages) >= 2
    /\ Len(valid_files) >= 2
    /\ fs0[output_path] = first_out

\* C16: whenever merge_pdfs returns True, a file exists at the output path
\* and validate_pdf_file accepts it.
C16_SuccessLeavesValidOutput ==
    Succeeded => exists(output_path) /\ validate_pdf_file(output_path)

\* A successful call that created both the output directory and the file.
C16_Witness ==
    /\ Succeeded
    /\ fs0[output_path].st = "missing"
    /\ dirname(output_path) # <<>> /\ dirname(output_path) \notin dirs0
    /\ Len(OutputPages) >= 1

\* What a merge_pdfs call over `files` does when it runs alone, nothing else
\* touches the filesystem and no write fails: it retains the files that
\* exist and validate, returns True iff it retained one, and then leaves
\* their pages at the output path.
RetainedOf(files) ==
    SelectSeq(files, LAMBDA q : exists(q) /\ validate_pdf_file(q))
AloneResult(files) == RetainedOf(files) # <<>>
AlonePages(files) ==
    Flatten([k \in 1..Len(RetainedOf(files)) |-> PagesRead(fs[RetainedOf(files)[k]])])
AloneOutput(files, out) ==
    IF AloneResult(files)
    THEN [st |-> "pdf", pages |-> AlonePages(files), bad |-> 0]
    ELSE fs0[out]

\* The one call of Spec, when nothing changed its inputs and no write
\* failed, does what AloneResult and AloneOutput say.
AloneIsTheOneCall ==
    (returned /\ envLeft = MaxEnv /\ ret # 111) =>
        /\ result = AloneResult(input_files)
        /\ fs[output_path] = AloneOutput(input_files, output_path)

\* C17: each of two interleaved merge_pdfs calls on one instance, with
\* different output paths and unchanged inputs, returns the result and
\* leaves the output that it does when run alone.
C17_InterleavedAsAlone ==
    \A p \in DOMAIN proc :
        proc[p].pc = "done" =>
            /\ proc[p].result = AloneResult(proc[p].input_files)
            /\ fs[proc[p].output_path] =
                   AloneOutput(proc[p].input_files, proc[p].output_path)

\* The status changes the front end's state machine has.
StatusMoves ==
    { << "uploaded", "merging" >>, << "merging", "completed" >>,
      << "merging", "failed" >> }

\* C18: a step changes a job's status only along uploaded -> merging ->
\* completed or uploaded -> merging -> failed.
C18_StatusMovesForward ==
    [][\A id \in DOMAIN merge_jobs \cap DOMAIN merge_jobs' :
         \/ merge_jobs'[id].status = merge_jobs[id].status
         \/ << merge_jobs[id].status, merge_jobs'[id].status >> \in StatusMoves]_vars

\* C19: in every job, uploaded_files and file_info have the same length and
\* file_info[k].path is uploaded_files[k] at every position.
C19_ListsCorrespond ==
    \A id \in DOMAIN merge_jobs :
        LET job == merge_jobs[id] IN
        /\ Len(job.uploaded_files) = Len(job.file_info)
        /\ \A k \in 1..Len(job.uploaded_files) :
              job.file_info[k].path = job.uploaded_files[k]

\* C20: the list and the tree have the same length, the k-th row is the row
\* inserted for the k-th path, and no path is listed twice.
C20_TreeMirrorsList ==
    /\ Len(file_tree) = Len(self_file_paths)
    /\ \A k \in 1..Len(self_file_paths) :
          file_tree[k].made_for = self_file_paths[k]
    /\ \A k, m \in 1..Len(self_file_paths) :
          self_file_paths[k] = self_file_paths[m] => k = m

\* Three files are listed, a row added later has since been moved above an
\* earlier one, a row was removed and its id is in use again, and move_down
\* has just run.
C20_Witness ==
    /\ gui_last = "move_down"
    /\ Len(self_file_paths) = 3
    /\ file_tree[1].iid > file_tree[3].iid
    /\ file_tree[2].iid = 1
    /\ file_tree[2].made_for # << "a.pdf" >>
    /\ self_file_paths[3] = << "a.pdf" >>

\* The merge threads started for a job.
ThreadsOf(id) == { r \in DOMAIN thr : thr[r].job_id = id }

\* C21: at most one merge thread is ever started for a job.
C21_OneThreadPerJob ==
    \A id \in JobIds : Cardinality(ThreadsOf(id)) <= 1

\* C22: whenever /status reports a job 'completed', the job has an output
\* path and progress 100, and /download does not answer 'File not ready for
\* download'.
C22_CompletedIsReady ==
    \A id \in Registered :
        get_status(id).status = "completed" =>
            /\ merge_jobs[id].output_path # None
            /\ get_status(id).progress = 100
            /\ download_file(id) # "File not ready for download"

\* C23: a job whose status is 'merging' eventually has the status
\* 'completed' or 'failed', whatever the outcome of the merge.
C23_MergingEnds ==
    \A id \in JobIds :
        (id \in DOMAIN merge_jobs /\ merge_jobs[id].status = "merging")
          ~> (id \in DOMAIN merge_jobs
                /\ merge_jobs[id].status \in {"completed", "failed"})

\* A thread whose merge raised has ended and the job is 'failed'.
C23_Witness ==
    \E r \in DOMAIN thr :
        /\ thr[r].pc = "done" /\ thr[r].outcome = "exception"
        /\ merge_jobs[thr[r].job_id].status = "failed"

\* C24: while a merge thread has not had its merge_complete call, the merge
\* button is disabled.
C24_ButtonDisabledWhileMerging ==
    MergesUnderWay > 0 => merge_button = "disabled"

\* C25: once a job's entry has been removed from merge_jobs, none of the
\* files its upload saved and no output file of the job exists on disk.
C25_RemovedJobLeavesNoFile ==
    \A id \in DOMAIN removed_by :
        (saved_files[id] \cup {OutputPath(id)}) \cap upload_folder = {}

\* How many times a path is in a list, and two lists holding the same paths
\* the same number of times.
Count(list, x) == Cardinality({ k \in 1..Len(list) : list[k] = x })
SameFiles(a, b) ==
    \A x \in Range(a) \cup Range(b) : Count(a, x) = Count(b, x)

\* C26: a step never drops a path from a job's uploaded_files nor
\* duplicates one (/reorder, the one handler that rewrites the list, only
\* permutes it), and it leaves the lists of a job that is not 'uploaded' as
\* they are.
C26_ReorderPermutes ==
    [][\A id \in DOMAIN merge_jobs :
          /\ SameFiles(merge_jobs[id].uploaded_files,
                       merge_jobs'[id].uploaded_files)
          /\ merge_jobs[id].status # "uploaded" =>
                /\ merge_jobs'[id].uploaded_files = merge_jobs[id].uploaded_files
                /\ merge_jobs'[id].file_info = merge_jobs[id].file_info]_vars

====
